---- MODULE Spec2Model ----
(***************************************************************************)
(* Model of the Key Management Service (kms/key_management_service.py)    *)
(* and of the BB84 simulator it calls (quantum_engine/bb84_simulator.py). *)
(*                                                                         *)
(* Every public method of KeyManagementService is one action; the body of *)
(* each method is an operator from the service state S to the state after *)
(* the call and the value (or exception) the call produces, so that the   *)
(* methods that call other methods (get_fresh_key, trigger_attack) are    *)
(* compositions of the same operators.                                    *)
(*                                                                         *)
(* Five specifications use these operators:  Spec, one whole call at a    *)
(* time;  PairSpec, the calls on the sessions of one pair, with room for  *)
(* a third exchange;  DemoSpec, get_fresh_key with its default peer and   *)
(* enough exchanges to fill the error-rate history;  SimSpec, one run of  *)
(* simulate_bb84 itself, bit by bit, called directly or by                *)
(* create_session;  ThreadSpec, two threads whose calls interleave at the *)
(* lock and at the unlocked accesses to the eavesdropper flag             *)
(* (FairThreadSpec adds that a thread that can step does step).           *)
(* FreshKeySpec is the two ends of one pair asking get_fresh_key for      *)
(* each other, thread by thread.                                           *)
(*                                                                         *)
(* Beside the service stand the chat relay (chat_server.py, ChatSpec),    *)
(* the network gateway (gateway/network_gateway.py, GatewaySpec) and a    *)
(* field device (devices/client.py, DeviceSpec, which calls the service). *)
(*                                                                         *)
(* Floats: an error rate is a ratio of two counts not above 512, kept as  *)
(* a fraction <<num, den>> in lowest terms and compared by cross          *)
(* multiplication; for such ratios the float comparisons of the source    *)
(* agree with the exact ones.  Timestamps are left out.                   *)
(***************************************************************************)
EXTENDS Integers, Sequences, FiniteSets, TLC

VARIABLES
    sessions,      \* self._sessions   : session_id -> Session
    pair_index,    \* self._pair_index : frozenset{dev_a, dev_b} -> session_id
    metrics,       \* self._metrics    : KMSMetrics
    eve_active,    \* self._eve_active
    next_id,       \* the next value uuid4() produces (never repeated)
    issued,        \* session_id -> key returned by the create_session that stored it
    ret,           \* what the last call returned or raised
    lock,          \* self._lock : the threads that hold it
    pc,            \* thread -> the line it stands at ("idle": not in a call)
    frame,         \* thread -> the arguments and locals of its call
    done,          \* thread -> what its last completed call returned or raised
                   \*           (None before its first call has returned)
    calls,         \* calls started by all threads
    bb84,          \* the exchange simulate_bb84 is asked to run: its random
                   \* choices and, once it has returned, its result
    \* chat_server.py, ChatServer
    clients,       \* self.clients  : device_id -> connection
    pending,       \* self._pending : device_id -> messages queued for it
    message_count, \* self.message_count
    conns,         \* connection -> its state and the locals of its handler
    wire,          \* connection -> the chat messages sent on it, in order
    latest,        \* device_id -> the connection that registered it last (0: none)
    \* gateway/network_gateway.py, NetworkGateway
    devices,       \* self._devices       : device_id -> DeviceRegistration
    message_queue, \* self._message_queue : recipient -> queued packets
    message_counter, \* self._message_counter
    routing_log,   \* self._routing_log
    delivered,     \* the packets handed to a deliver_callback, in order
    gw_ret,        \* what the last call of the gateway returned
    \* devices/client.py, SoldierDevice
    current_key,   \* self._current_key
    messages_sent, \* self._messages_sent
    dev_ret,       \* what the last call of the device returned
    last_request   \* what the last request_key returned ("" before the first)

vars == <<sessions, pair_index, metrics, eve_active, next_id, issued, ret,
          lock, pc, frame, done, calls, bb84,
          clients, pending, message_count, conns, wire, latest,
          devices, message_queue, message_counter, routing_log, delivered,
          gw_ret, current_key, messages_sent, dev_ret, last_request>>

tvars == <<lock, pc, frame, done, calls>>

kmsvars == <<sessions, pair_index, metrics, eve_active, next_id, issued, ret,
             tvars, bb84>>

chatvars == <<clients, pending, message_count, conns, wire, latest>>

gwvars == <<devices, message_queue, message_counter, routing_log, delivered,
            gw_ret>>

devvars == <<current_key, messages_sent, dev_ret, last_request>>

\* the relay, the gateway and the device, which the service never touches
apart == <<chatvars, gwvars, devvars>>

(***************************************************************************)
(* Bounds                                                                  *)
(***************************************************************************)
MaxIds  == 2     \* session ids handed out in one behaviour
MaxRuns == 2     \* simulator runs recorded in qber_history since the last reset
MaxKeys == 3     \* total_keys_issued since the last reset
MaxPairRuns == 3 \* simulator runs in a behaviour of PairSpec
MaxCalls == 2    \* calls started by all threads in a behaviour of ThreadSpec

(***************************************************************************)
(* Constants of the program                                                *)
(***************************************************************************)
QBER_SECURITY_THRESHOLD == <<11, 100>>
GREEN_LIMIT == <<5, 100>>

GREEN  == "GREEN"
YELLOW == "YELLOW"
RED    == "RED"

ATTACK_PROBE  == "_attack_probe_"
ATTACK_TARGET == "_attack_target_"

\* (initiator, peer, pqc_enabled) arguments of create_session: both orders
\* of the pair A, B and a self pair, which is the hybrid one
CreateCalls == { <<"A", "B", FALSE>>, <<"B", "A", FALSE>>, <<"A", "A", TRUE>> }
\* (device_id, peer_id) arguments of get_fresh_key: both ends of the pair
FreshKeyCalls == { <<"A", "B">>, <<"B", "A">> }
\* device_id arguments of join_session: B, an end of the pair A, B, and the
\* outsider C
JoinDevices == {"B", "C"}

(***************************************************************************)
(* Error rates                                                             *)
(***************************************************************************)
RECURSIVE GCD(_, _)
GCD(a, b) == IF b = 0 THEN a ELSE GCD(b, a % b)

Frac(n, d) == LET g == GCD(n, d) IN <<n \div g, d \div g>>

QLT(p, q) == p[1] * q[2] < q[1] * p[2]
QGT(p, q) == QLT(q, p)

\* an exchange that retains nothing has no error
QBER_empty_is_clean(errors, sifted) ==
    IF sifted = 0 THEN <<0, 1>> ELSE Frac(errors, sifted)

\* qber of an exchange with `sifted` retained positions, `errors` of them wrong
QBER(errors, sifted) == IF sifted = 0 THEN <<1, 1>> ELSE Frac(errors, sifted)

AttackDetected(qber) == QGT(qber, QBER_SECURITY_THRESHOLD)

(***************************************************************************)
(* simulate_bb84.  The random choices of one run are its draw: the bits   *)
(* and bases of the sender, the bases of the receiver, the bases of the   *)
(* interceptor (none when it is absent) and coins, the outcomes of the    *)
(* random.randint calls that decide a measurement (0 where no such call   *)
(* is made).  noise_level is 0.0 and eve_intercept_rate 1.0, the values   *)
(* of the defaults and of the service's calls with the interceptor: no    *)
(* bit is flipped by noise and every qubit is intercepted.                *)
(***************************************************************************)
KEY_LENGTH_BITS == 256
KEY_LENGTH_BYTES == 32

MaxQubits == 2      \* num_bits of the runs whose draws are enumerated in full
LongQubits == 258   \* num_bits of the runs that retain more than a key's bits

Bits == {0, 1}

BitSeqs(n) == [1..n -> Bits]

\* lines 156-168: the interceptor measured qubit i in the wrong basis
Disturbed(draw, eve_present, i) ==
    eve_present /\ draw.eve_bases[i] # draw.alice_bases[i]

\* the receiver's basis decides nothing: every measurement is random
BobResult_random(draw, eve_present, i) == draw.coins[i]

\* lines 171-186: what the receiver measures at position i
BobResult(draw, eve_present, i) ==
    IF draw.bob_bases[i] = draw.alice_bases[i]
    THEN IF Disturbed(draw, eve_present, i) THEN draw.coins[i]
         ELSE draw.alice_bits[i]
    ELSE draw.coins[i]

\* lines 197-203: the entries of bits at the positions lo..hi where the two
\* bases agree, in position order (the loop's result, built by halves)
RECURSIVE SiftRange(_, _, _, _, _)
SiftRange(bits, alice_bases, bob_bases, lo, hi) ==
    IF lo > hi THEN <<>>
    ELSE IF lo = hi
    THEN IF alice_bases[lo] = bob_bases[lo] THEN <<bits[lo]>> ELSE <<>>
    ELSE LET mid == (lo + hi) \div 2
         IN SiftRange(bits, alice_bases, bob_bases, lo, mid)
              \o SiftRange(bits, alice_bases, bob_bases, mid + 1, hi)

Sift(bits, alice_bases, bob_bases, n) ==
    SiftRange(bits, alice_bases, bob_bases, 1, n)

\* int(''.join(...), 2): an integer of any size, kept as its binary digits
\* without leading zeros (no digit at all for 0)
FirstOne(bits) ==
    LET ones == {i \in 1..Len(bits) : bits[i] = 1}
    IN IF ones = {} THEN Len(bits) + 1
       ELSE CHOOSE i \in ones : \A j \in ones : i <= j

IntOfBits(bits) == SubSeq(bits, FirstOne(bits), Len(bits))

\* what no byte string is: int.to_bytes raises OverflowError
Overflow == << -1 >>

\* int.to_bytes(length, byteorder='big'): the digits, zeros in front up to
\* 8 * length of them, eight to a byte, the first the highest
ToBytes(digits, length) ==
    IF Len(digits) > 8 * length THEN Overflow
    ELSE LET lead == 8 * length - Len(digits)
             bit(k) == IF k <= lead THEN 0 ELSE digits[k - lead]
         IN [b \in 1..length |->
                128 * bit(8 * b - 7) + 64 * bit(8 * b - 6) + 32 * bit(8 * b - 5)
              + 16 * bit(8 * b - 4) + 8 * bit(8 * b - 3) + 4 * bit(8 * b - 2)
              + 2 * bit(8 * b - 1) + bit(8 * b)]

\* no key at all when nothing was retained
ZeroKey_empty == <<>>

\* line 244: b'\x00' * KEY_LENGTH_BYTES
ZeroKey == [b \in 1..KEY_LENGTH_BYTES |-> 0]

\* the retained bits are the low end of the key
PaddedBits_high(sifted_alice_bits) ==
    [k \in 1..(KEY_LENGTH_BITS - Len(sifted_alice_bits)) |-> 0] \o sifted_alice_bits

\* line 247
PaddedBits(sifted_alice_bits) ==
    sifted_alice_bits \o [k \in 1..(KEY_LENGTH_BITS - Len(sifted_alice_bits)) |-> 0]

\* lines 236-249
SharedKey(sifted_alice_bits) ==
    IF Len(sifted_alice_bits) >= KEY_LENGTH_BITS
    THEN ToBytes(IntOfBits(SubSeq(sifted_alice_bits, 1, KEY_LENGTH_BITS)),
                 KEY_LENGTH_BYTES)
    ELSE IF Len(sifted_alice_bits) = 0 THEN ZeroKey
    ELSE ToBytes(IntOfBits(PaddedBits(sifted_alice_bits)), KEY_LENGTH_BYTES)

\* the triple the function returns (raw_key is its shared_key)
simulate_bb84(num_bits, eve_present, draw) ==
    LET bob_results == [i \in 1..num_bits |-> BobResult(draw, eve_present, i)]
        sifted_alice_bits == Sift(draw.alice_bits, draw.alice_bases,
                                  draw.bob_bases, num_bits)
        sifted_bob_bits == Sift(bob_results, draw.alice_bases,
                                draw.bob_bases, num_bits)
        errors == Cardinality({k \in 1..Len(sifted_alice_bits) :
                                  sifted_alice_bits[k] # sifted_bob_bits[k]})
        qber == QBER(errors, Len(sifted_alice_bits))
    IN [raw_key |-> SharedKey(sifted_alice_bits),
        qber |-> qber,
        attack_detected |-> AttackDetected(qber)]

\* nothing returned yet
NoOutcome == [raw_key |-> <<>>, qber |-> <<0, 1>>, attack_detected |-> FALSE]

Exchange(stage, num_bits, eve_present, draw) ==
    [stage |-> stage, num_bits |-> num_bits, eve_present |-> eve_present,
     draw |-> draw, out |-> NoOutcome]

Draw(alice_bits, alice_bases, bob_bases, eve_bases, coins) ==
    [alice_bits |-> alice_bits, alice_bases |-> alice_bases,
     bob_bases |-> bob_bases, eve_bases |-> eve_bases, coins |-> coins]

\* no exchange is being looked at
NoExchange == Exchange("none", 0, FALSE, Draw(<<>>, <<>>, <<>>, <<>>, <<>>))

\* random.randint decides the measurement at position i
Consumed(draw, eve_present, i) ==
    draw.alice_bases[i] # draw.bob_bases[i] \/ Disturbed(draw, eve_present, i)

\* a coin is 0 where random.randint is not called
CoinsAsCalled(n, eve_present, draw) ==
    \A i \in 1..n : ~Consumed(draw, eve_present, i) => draw.coins[i] = 0

\* draws of a run of LongQubits qubits: the sender's bases all 0, the
\* receiver's equal to them everywhere, everywhere but at position 2, at
\* every second position, or nowhere; the interceptor, when present, in the
\* wrong basis everywhere
LongDraws(eve_present) ==
    LET n == LongQubits
        all(v) == [i \in 1..n |-> v]
    IN { LET d == Draw(a, all(0), y, IF eve_present THEN all(1) ELSE <<>>, all(v))
         IN [d EXCEPT !.coins = [i \in 1..n |->
                                   IF Consumed(d, eve_present, i) THEN v ELSE 0]] :
           a \in { all(1), [i \in 1..n |-> i % 2],
                   [i \in 1..n |-> IF i > KEY_LENGTH_BITS THEN 1 ELSE 0] },
           y \in { all(0), [i \in 1..n |-> IF i = 2 THEN 1 ELSE 0],
                   [i \in 1..n |-> i % 2], all(1) },
           v \in Bits }

(***************************************************************************)
(* Results of simulate_bb84(num_bits=512, eve_present,                     *)
(* eve_intercept_rate = 1.0 if eve_present else 0.0, noise_level = 0.0)    *)
(* as the service sees them.  counts = <<errors, sifted>>, raw = the       *)
(* packed sender bits.  Without the interceptor no retained position is   *)
(* wrong; with it any number of them can be: the samples are an error     *)
(* rate of exactly 0.05, one of exactly the threshold and the 0.25 of a   *)
(* full interception.  An exchange that retains no position at all is     *)
(* not among the samples; SimSpec runs it.                                 *)
(***************************************************************************)
RawKeys == {7}

CountsNoEve == { <<0, 256>> }
CountsEve   == { <<5, 100>>, <<11, 100>>, <<64, 256>> }

SimResult(raw, counts) ==
    LET q == QBER(counts[1], counts[2])
    IN [raw_key |-> IF counts[2] = 0 THEN 0 ELSE raw,
        qber |-> q,
        attack_detected |-> AttackDetected(q)]

SimResults(eve_present) ==
    { SimResult(raw, c) : raw \in RawKeys,
                          c \in IF eve_present THEN CountsEve ELSE CountsNoEve }

(***************************************************************************)
(* Key derivation.  HKDF-SHA256 is kept as a symbolic term of its input   *)
(* key material and its info string; os.urandom is one of KyberSecrets.   *)
(***************************************************************************)
KyberSecrets == {1}

InfoStr(session_id, initiator, peer) == <<"QSTCS-Session", session_id, initiator, peer>>

HKDF(ikm, info) == [ikm |-> ikm, info |-> info, hybrid |-> <<>>]

HybridHKDF(session_key, kyber_shared_secret) ==
    [session_key EXCEPT !.hybrid = <<kyber_shared_secret, "QSTCS-Hybrid-PQC">>]

NoKey == [ikm |-> 0, info |-> <<>>, hybrid |-> <<>>]

(***************************************************************************)
(* State of the service and responses                                      *)
(***************************************************************************)
KMSMetrics ==
    [total_keys_issued |-> 0, total_sessions |-> 0, attacks_detected |-> 0,
     active_sessions |-> 0, last_qber |-> <<0, 1>>, link_status |-> GREEN,
     qber_history |-> <<>>]

Session(session_id, initiator, peer, key, qber, status, pqc_enabled) ==
    [session_id |-> session_id, initiator |-> initiator, peer |-> peer,
     key |-> key, qber |-> qber, status |-> status, joined |-> FALSE,
     pqc_enabled |-> pqc_enabled]

NoSession == Session(0, "", "", NoKey, <<0, 1>>, "", FALSE)

HISTORY_WINDOW == 20

LastN(seq, n) ==
    IF Len(seq) <= n THEN seq ELSE SubSeq(seq, Len(seq) - n + 1, Len(seq))

\* check_link_health's dictionary
Health(S) ==
    [status |-> S.metrics.link_status,
     total_keys_issued |-> S.metrics.total_keys_issued,
     total_sessions |-> S.metrics.total_sessions,
     attacks_detected |-> S.metrics.attacks_detected,
     active_sessions |-> S.metrics.active_sessions,
     last_qber |-> S.metrics.last_qber,
     eve_active |-> S.eve_active,
     qber_history |-> LastN(S.metrics.qber_history, HISTORY_WINDOW)]

NoHealth == Health([metrics |-> KMSMetrics, eve_active |-> FALSE])

\* A response: kind is "ok" or the exception raised; view is the session
\* dictionary of _session_to_dict (for invalidate_session, which returns only
\* a boolean, the initiator and peer of the session it removed), key a bare
\* key (get_fresh_key), health the dictionary of check_link_health, flag the
\* boolean of invalidate_session.
\* args are the arguments of the call, ran says whether simulate_bb84 ran.
Args(session_id, device, peer) ==
    [session_id |-> session_id, device |-> device, peer |-> peer]

NoArgs == Args(0, "", "")

Response(op, args, kind) ==
    [op |-> op, args |-> args, kind |-> kind, view |-> NoSession,
     key |-> NoKey, health |-> NoHealth, flag |-> FALSE, ran |-> FALSE]

session_to_dict(session) ==
    [session_id |-> session.session_id, key |-> session.key,
     qber |-> session.qber, status |-> session.status,
     initiator |-> session.initiator, peer |-> session.peer,
     joined |-> session.joined, pqc_enabled |-> session.pqc_enabled]

State == [sessions |-> sessions, pair_index |-> pair_index,
          metrics |-> metrics, eve_active |-> eve_active, next_id |-> next_id]

\* every stored session counts as active
ActiveCount_all(ss) == Cardinality(DOMAIN ss)

ActiveCount(ss) == Cardinality({id \in DOMAIN ss : ss[id].status # RED})

Remove(f, k) == [x \in DOMAIN f \ {k} |-> f[x]]

(***************************************************************************)
(* create_session.  sim is the triple simulate_bb84 returns when it runs, *)
(* kyber the bytes os.urandom returns when pqc_enabled.  The result is    *)
(* the state after the call and the response.                             *)
(***************************************************************************)
\* only the 25% error rate of a full interception is taken as a failure
ThresholdFailed_lax(attack_detected, qber, threshold) ==
    QGT(qber, <<1, 4>>)

ThresholdFailed(attack_detected, qber, threshold) ==
    attack_detected \/ QGT(qber, threshold)
\* the status is set but the attack is not counted
RejectMetrics_uncounted(m) == [m EXCEPT !.link_status = RED]

\* lines 178-179: the metrics after an exchange that failed the check
RejectMetrics(m) ==
    [m EXCEPT !.link_status = RED, !.attacks_detected = @ + 1]

\* lines 188-192: the status after an exchange that passed the check
StatusAfter(qber, threshold, old_status) ==
    IF QLT(qber, GREEN_LIMIT) THEN GREEN
    ELSE IF QLT(qber, threshold) THEN YELLOW
    ELSE old_status

\* lines 145-153: the session returned without a new exchange, if any
ExistingUnjoined(S, pair_key) ==
    /\ pair_key \in DOMAIN S.pair_index
    /\ ~S.sessions[S.pair_index[pair_key]].joined

DeriveKey(raw_key, session_id, initiator, peer, pqc_enabled, kyber) ==
    LET session_key == HKDF(raw_key, InfoStr(session_id, initiator, peer))
    IN IF pqc_enabled THEN HybridHKDF(session_key, kyber) ELSE session_key

create_session(S, initiator, peer, pqc_enabled, sim, kyber) ==
    LET pair_key == {initiator, peer}
        args == Args(0, initiator, peer)
    IN
    IF ExistingUnjoined(S, pair_key)
    THEN [st |-> S,
          ret |-> [Response("create_session", args, "ok") EXCEPT
                      !.view = session_to_dict(S.sessions[S.pair_index[pair_key]])]]
    ELSE
    LET eve_present == S.eve_active
        m1 == [S.metrics EXCEPT
                 !.last_qber = sim.qber,
                 !.qber_history = Append(@, [qber |-> sim.qber,
                                             eve_present |-> eve_present])]
    IN
    IF ThresholdFailed(sim.attack_detected, sim.qber, QBER_SECURITY_THRESHOLD)
    THEN [st |-> [S EXCEPT !.metrics = RejectMetrics(m1)],
          ret |-> [Response("create_session", args, "LinkCompromised") EXCEPT
                      !.ran = TRUE]]
    ELSE
    LET status == StatusAfter(sim.qber, QBER_SECURITY_THRESHOLD, m1.link_status)
        session_id == S.next_id
        session_key == DeriveKey(sim.raw_key, session_id, initiator, peer,
                                 pqc_enabled, kyber)
        session == Session(session_id, initiator, peer, session_key,
                           sim.qber, status, pqc_enabled)
        ss == S.sessions @@ (session_id :> session)
    IN [st |-> [S EXCEPT
                  !.sessions = ss,
                  !.pair_index = (pair_key :> session_id) @@ @,
                  !.next_id = @ + 1,
                  !.metrics = [m1 EXCEPT
                                 !.link_status = status,
                                 !.total_sessions = @ + 1,
                                 !.total_keys_issued = @ + 1,
                                 !.active_sessions = ActiveCount(ss)]],
        ret |-> [Response("create_session", args, "ok") EXCEPT
                    !.view = session_to_dict(session), !.ran = TRUE]]

(***************************************************************************)
(* join_session                                                            *)
(***************************************************************************)
\* any device may fetch the key
IsParticipant_anyone(session, device_id) == TRUE

IsParticipant(session, device_id) ==
    device_id = session.peer \/ device_id = session.initiator

\* lines 266-281: the exception the call raises, "ok" when it raises none
JoinOutcome(S, session_id, device_id) ==
    IF session_id \notin DOMAIN S.sessions THEN "NotFound"
    ELSE IF ~IsParticipant(S.sessions[session_id], device_id) THEN "NotAParticipant"
    ELSE IF S.sessions[session_id].status = RED THEN "SessionCompromised"
    ELSE "ok"
\* the issuance is counted before the checks
JoinFailure_counted(S, args, kind) ==
    [st |-> [S EXCEPT !.metrics.total_keys_issued = @ + 1],
     ret |-> Response("join_session", args, kind)]

\* a raise inside join_session: nothing was written before it
JoinFailure(S, args, kind) ==
    [st |-> S, ret |-> Response("join_session", args, kind)]
\* the joining device gets a key derived again under its own name
JoinedSession_rederived(session, device_id) ==
    [session EXCEPT !.joined = TRUE,
                    !.key = HKDF(session.key.ikm, <<"QSTCS-Session", device_id>>)]

\* a join takes the flag back when it was set
JoinedSession_toggled(session, device_id) == [session EXCEPT !.joined = ~@]

\* line 283: the session after the join
JoinedSession(session, device_id) == [session EXCEPT !.joined = TRUE]

join_session(S, session_id, device_id) ==
    LET args == Args(session_id, device_id, "")
        kind == JoinOutcome(S, session_id, device_id)
    IN
    IF kind # "ok" THEN JoinFailure(S, args, kind)
    ELSE
    LET session == JoinedSession(S.sessions[session_id], device_id) IN
    [st |-> [S EXCEPT !.sessions[session_id] = session,
                      !.metrics.total_keys_issued = @ + 1],
     ret |-> [Response("join_session", args, "ok") EXCEPT
                 !.view = session_to_dict(session)]]

(***************************************************************************)
(* get_fresh_key, called by one caller at a time.                          *)
(***************************************************************************)
\* lines 327-334: the session the caller joins instead of creating one
CanJoinExisting(S, device_id, pair_key) ==
    /\ pair_key \in DOMAIN S.pair_index
    /\ ~S.sessions[S.pair_index[pair_key]].joined
    /\ device_id = S.sessions[S.pair_index[pair_key]].peer

get_fresh_key(S, device_id, force_eve_attack, pqc_enabled, peer_id, sim, kyber) ==
    LET old_eve == S.eve_active
        S1 == [S EXCEPT !.eve_active = IF force_eve_attack THEN TRUE ELSE @]
        pair_key == {device_id, peer_id}
        args == Args(0, device_id, peer_id)
    IN
    IF CanJoinExisting(S1, device_id, pair_key)
    THEN LET sid == S1.pair_index[pair_key] IN
         [st |-> [S1 EXCEPT !.sessions[sid].joined = TRUE,
                            !.metrics.total_keys_issued = @ + 1,
                            !.eve_active = old_eve],
          ret |-> [Response("get_fresh_key", args, "ok") EXCEPT
                      !.key = S1.sessions[sid].key],
          inner |-> Response("none", NoArgs, "ok")]
    ELSE LET r == create_session(S1, device_id, peer_id, pqc_enabled, sim, kyber) IN
         [st |-> [r.st EXCEPT !.eve_active = old_eve],
          ret |-> [Response("get_fresh_key", args, r.ret.kind) EXCEPT
                      !.key = r.ret.view.key, !.ran = r.ret.ran],
          inner |-> r.ret]

(***************************************************************************)
(* Eve / attack control                                                    *)
(***************************************************************************)
activate_eve(S) ==
    [st |-> [S EXCEPT !.eve_active = TRUE],
     ret |-> Response("activate_eve", NoArgs, "ok")]

\* switching the interceptor off also clears the alarm
deactivate_eve_clearing(S) ==
    [st |-> [S EXCEPT !.eve_active = FALSE, !.metrics.link_status = GREEN],
     ret |-> Response("deactivate_eve", NoArgs, "ok")]

deactivate_eve(S) ==
    [st |-> [S EXCEPT !.eve_active = FALSE],
     ret |-> Response("deactivate_eve", NoArgs, "ok")]

\* The dictionary trigger_attack returns, as a health dictionary whose other
\* entries are absent; attacks_detected is present only on the except path.
TriggerResult(health, raised) ==
    [NoHealth EXCEPT !.status = health.status,
                     !.last_qber = health.last_qber,
                     !.attacks_detected =
                         IF raised THEN health.attacks_detected ELSE 0]

trigger_attack(S, sim) ==
    LET S1 == [S EXCEPT !.eve_active = TRUE]
        r == create_session(S1, ATTACK_PROBE, ATTACK_TARGET, FALSE, sim, 0)
    IN [st |-> r.st,
        ret |-> [Response("trigger_attack", NoArgs, "ok") EXCEPT
                    !.health = TriggerResult(Health(r.st), r.ret.kind # "ok"),
                    !.ran = r.ret.ran],
        inner |-> r.ret]

(***************************************************************************)
(* Monitoring, invalidation, reset                                         *)
(***************************************************************************)
\* reading the health acknowledges the alarm
check_link_health_acknowledging(S) ==
    [st |-> [S EXCEPT !.metrics.link_status = GREEN],
     ret |-> [Response("check_link_health", NoArgs, "ok") EXCEPT
                 !.health = Health(S)]]

check_link_health(S) ==
    [st |-> S,
     ret |-> [Response("check_link_health", NoArgs, "ok") EXCEPT
                 !.health = Health(S)]]

invalidate_session(S, session_id) ==
    LET args == Args(session_id, "", "") IN
    IF session_id \in DOMAIN S.sessions
    THEN LET session == S.sessions[session_id]
             pair_key == {session.initiator, session.peer}
             ss == Remove(S.sessions, session_id)
         IN [st |-> [S EXCEPT !.sessions = ss,
                              !.pair_index = Remove(@, pair_key),
                              !.metrics.active_sessions = ActiveCount(ss)],
             ret |-> [Response("invalidate_session", args, "ok") EXCEPT
                         !.flag = TRUE,
                         !.view = [NoSession EXCEPT !.initiator = session.initiator,
                                                   !.peer = session.peer]]]
    ELSE [st |-> S, ret |-> Response("invalidate_session", args, "ok")]

\* the sessions are dropped, the metrics are kept
reset_sessions_only(S) ==
    [st |-> [S EXCEPT !.sessions = <<>>, !.pair_index = <<>>,
                      !.eve_active = FALSE],
     ret |-> Response("reset", NoArgs, "ok")]

reset(S) ==
    [st |-> [S EXCEPT !.sessions = <<>>, !.pair_index = <<>>,
                      !.metrics = KMSMetrics, !.eve_active = FALSE],
     ret |-> Response("reset", NoArgs, "ok")]

(***************************************************************************)
(* Callers.  A thread is idle or stands inside one call; frame[t] holds    *)
(* the arguments and the locals of that call, and keeps the arguments     *)
(* after the call has returned.                                            *)
(***************************************************************************)
Threads == {1, 2}

\* the value of a local that has not been assigned
None == <<>>

\* op, args, force: the method called and its arguments;
\* old_eve: get_fresh_key's local;  r: the outcome of the exchange
\* create_session has run and not yet stored;  kind, ran: whether the
\* create_session called by get_fresh_key or trigger_attack raised, and
\* whether it ran the simulator;  status: the entry of the dictionary
\* check_link_health has read;  key: the key get_fresh_key is about to return.
\* fresh and overlap describe the call for the properties: fresh, no
\* session of the pair was stored when the call started; overlap, another
\* create_session for the same pair was in progress at some time of the call.
Frame(op, args, force) ==
    [op |-> op, args |-> args, force |-> force,
     old_eve |-> FALSE, r |-> None, kind |-> "ok", ran |-> FALSE,
     status |-> "", key |-> NoKey, fresh |-> FALSE, overlap |-> FALSE]

NoFrame == Frame("none", NoArgs, FALSE)

ThreadInit ==
    /\ lock = {}
    /\ pc = [t \in Threads |-> "idle"]
    /\ frame = [t \in Threads |-> NoFrame]
    /\ done = [t \in Threads |-> None]
    /\ calls = 0

(***************************************************************************)
(* The chat relay (chat_server.py).  One handler coroutine runs for each   *)
(* connection, all on one event loop: a handler runs alone from one await  *)
(* to the next.  websocket.send writes the frame when it is called and     *)
(* may then suspend the caller until the transport has drained; it raises  *)
(* on a connection that is closed.  A message is the record the client     *)
(* sent: the relay reads its recipient only, and json.dumps of the parsed  *)
(* packet carries the same fields, so a message stands for its frame; id   *)
(* is the value of message_count when the relay accepted it.  Keepalive    *)
(* pings and frames that are not JSON change nothing of the relay's state  *)
(* and are left out.                                                       *)
(***************************************************************************)
MaxConns == 2    \* connections opened in a behaviour of ChatSpec
MaxMsgs == 3     \* chat messages accepted in a behaviour of ChatSpec

Conns == 1..MaxConns
ChatDevices == {"A", "B"}

\* handler's local device_id is None until a register frame arrives
NoDevice == ""

Conn(status, device_id, line, todo) ==
    [status |-> status, device_id |-> device_id, pc |-> line, todo |-> todo]

ChatMessage(id, recipient) == [id |-> id, recipient |-> recipient]

\* ChatServer.__init__, and no connection yet
ChatInit ==
    /\ clients = <<>>
    /\ pending = <<>>
    /\ message_count = 0
    /\ conns = [c \in Conns |-> Conn("new", NoDevice, "recv", <<>>)]
    /\ wire = [c \in Conns |-> <<>>]
    /\ latest = [d \in ChatDevices |-> 0]

\* d[k] = v
Put(d, k, v) == (k :> v) @@ d

\* self._pending[recipient].append(message), the list made when missing
Queue(q, recipient, message) ==
    Put(q, recipient,
        IF recipient \in DOMAIN q THEN Append(q[recipient], message)
        ELSE <<message>>)

\* a client connects: serve() starts handler(websocket)
Connect(c) ==
    /\ conns[c].status = "new"
    /\ conns' = [conns EXCEPT ![c].status = "open"]
    /\ UNCHANGED <<clients, pending, message_count, wire, latest>>
    /\ UNCHANGED <<kmsvars, gwvars, devvars>>

\* handler, lines 168-170, and register up to its first await: the
\* connection is entered in clients, the queue is taken and emptied, and
\* the first queued message is written
Register(c, device_id) ==
    /\ conns[c].status = "open"
    /\ conns[c].pc = "recv"
    /\ LET queued == IF device_id \in DOMAIN pending THEN pending[device_id]
                     ELSE <<>>
       IN /\ clients' = Put(clients, device_id, c)
          /\ pending' = Put(pending, device_id, <<>>)
          /\ IF queued = <<>>
             THEN /\ conns' = [conns EXCEPT ![c].device_id = device_id]
                  /\ UNCHANGED wire
             ELSE /\ conns' = [conns EXCEPT
                                 ![c] = Conn("open", device_id, "reg_send",
                                             Tail(queued))]
                  /\ wire' = [wire EXCEPT ![c] = Append(@, Head(queued))]
    /\ latest' = [latest EXCEPT ![device_id] = c]
    /\ UNCHANGED message_count
    /\ UNCHANGED <<kmsvars, gwvars, devvars>>

\* register, lines 97-104, resumed after the await of line 99: the next
\* queued message is written; on a connection closed meanwhile every send
\* that is left raises and its message is dropped
RegisterSend(c) ==
    /\ conns[c].pc = "reg_send"
    /\ IF conns[c].todo = <<>>
       THEN /\ conns' = [conns EXCEPT ![c].pc = "recv"]
            /\ UNCHANGED wire
       ELSE IF conns[c].status = "open"
       THEN /\ conns' = [conns EXCEPT ![c].todo = Tail(@)]
            /\ wire' = [wire EXCEPT ![c] = Append(@, Head(conns[c].todo))]
       ELSE /\ conns' = [conns EXCEPT ![c].todo = <<>>, ![c].pc = "recv"]
            /\ UNCHANGED wire
    /\ UNCHANGED <<clients, pending, message_count, latest>>
    /\ UNCHANGED <<kmsvars, gwvars, devvars>>

\* handler, lines 172-177, and route_message: a chat frame from a
\* connection that has registered
RouteMessage(c, recipient) ==
    /\ conns[c].status = "open"
    /\ conns[c].pc = "recv"
    /\ conns[c].device_id # NoDevice
    /\ message_count < MaxMsgs
    /\ message_count' = message_count + 1
    /\ LET message == ChatMessage(message_count + 1, recipient)
       IN IF recipient \in DOMAIN clients
             /\ conns[clients[recipient]].status = "open"
          THEN /\ wire' = [wire EXCEPT ![clients[recipient]] = Append(@, message)]
               /\ UNCHANGED pending
          ELSE /\ pending' = Queue(pending, recipient, message)
               /\ UNCHANGED wire
    /\ UNCHANGED <<clients, conns, latest>>
    /\ UNCHANGED <<kmsvars, gwvars, devvars>>

\* the client closes the connection
Close(c) ==
    /\ conns[c].status = "open"
    /\ conns' = [conns EXCEPT ![c].status = "closed"]
    /\ UNCHANGED <<clients, pending, message_count, wire, latest>>
    /\ UNCHANGED <<kmsvars, gwvars, devvars>>

\* unregister
Unregistered(cs, device_id) ==
    [d \in DOMAIN cs \ {device_id} |-> cs[d]]

\* handler, lines 187-195: the loop of line 159 ends on the closed
\* connection and finally unregisters the device_id the handler holds
HandlerExit(c) ==
    /\ conns[c].status = "closed"
    /\ conns[c].pc = "recv"
    /\ conns' = [conns EXCEPT ![c].status = "gone"]
    /\ clients' = IF conns[c].device_id # NoDevice
                  THEN Unregistered(clients, conns[c].device_id)
                  ELSE clients
    /\ UNCHANGED <<pending, message_count, wire, latest>>
    /\ UNCHANGED <<kmsvars, gwvars, devvars>>

ChatNext ==
    \E c \in Conns :
       \/ Connect(c)
       \/ \E d \in ChatDevices : Register(c, d)
       \/ RegisterSend(c)
       \/ \E d \in ChatDevices : RouteMessage(c, d)
       \/ Close(c)
       \/ HandlerExit(c)

(***************************************************************************)
(* State of the gateway and of the device after construction              *)
(***************************************************************************)
NoPacket == [sender |-> "", recipient |-> "", nonce |-> 0,
             ciphertext |-> [key |-> NoKey, nonce |-> 0, plaintext |-> ""]]

GatewayReturn(op, device_id, flag, messages) ==
    [op |-> op, device_id |-> device_id, flag |-> flag, messages |-> messages]

\* NetworkGateway.__init__
GatewayInit ==
    /\ devices = <<>>
    /\ message_queue = <<>>
    /\ message_counter = 0
    /\ routing_log = <<>>
    /\ delivered = <<>>
    /\ gw_ret = GatewayReturn("init", "", FALSE, <<>>)

DeviceReturn(op, ok, packet) == [op |-> op, ok |-> ok, packet |-> packet]

\* SoldierDevice.__init__
DeviceInit ==
    /\ current_key = NoKey
    /\ messages_sent = 0
    /\ dev_ret = DeviceReturn("init", TRUE, NoPacket)
    /\ last_request = ""

ApartInit == ChatInit /\ GatewayInit /\ DeviceInit

(***************************************************************************)
(* The network gateway (gateway/network_gateway.py).  Every method runs    *)
(* under self._lock from its first line to its return, so a call is one    *)
(* step.  A packet is known by n, the number of the route_message call     *)
(* that carried it (the message_id of its routing record); the gateway     *)
(* reads its sender and recipient only.  Timestamps and sizes are left     *)
(* out.                                                                    *)
(***************************************************************************)
MaxRouted == 3   \* route_message calls in a behaviour of GatewaySpec

GatewayDevices == {"A", "B"}

Packet(n, sender, recipient) == [n |-> n, sender |-> sender, recipient |-> recipient]

DeviceRegistration(device_id) == [device_id |-> device_id, message_count |-> 0]

RoutingRecord(message_id, sender, recipient) ==
    [message_id |-> message_id, sender |-> sender, recipient |-> recipient,
     status |-> "DELIVERED"]

\* the packets queued for device_id, none when it has no queue
Queued(device_id) ==
    IF device_id \in DOMAIN message_queue THEN message_queue[device_id]
    ELSE <<>>

register_device(device_id) ==
    /\ IF device_id \in DOMAIN devices
       THEN /\ gw_ret' = GatewayReturn("register_device", device_id, FALSE, <<>>)
            /\ UNCHANGED <<devices, message_queue>>
       ELSE /\ devices' = Put(devices, device_id, DeviceRegistration(device_id))
            /\ message_queue' = Put(message_queue, device_id, <<>>)
            /\ gw_ret' = GatewayReturn("register_device", device_id, TRUE, <<>>)
    /\ UNCHANGED <<message_counter, routing_log, delivered>>
    /\ UNCHANGED <<kmsvars, chatvars, devvars>>

unregister_device(device_id) ==
    /\ IF device_id \in DOMAIN devices
       THEN /\ devices' = [d \in DOMAIN devices \ {device_id} |-> devices[d]]
            /\ gw_ret' = GatewayReturn("unregister_device", device_id, TRUE, <<>>)
       ELSE /\ gw_ret' = GatewayReturn("unregister_device", device_id, FALSE, <<>>)
            /\ UNCHANGED devices
    /\ UNCHANGED <<message_queue, message_counter, routing_log, delivered>>
    /\ UNCHANGED <<kmsvars, chatvars, devvars>>

\* route_message with a deliver_callback (callback) or without one
route_message(sender, recipient, callback) ==
    /\ message_counter < MaxRouted
    /\ LET packet == Packet(message_counter + 1, sender, recipient)
           record == RoutingRecord(message_counter + 1, sender, recipient)
           online == recipient \in DOMAIN devices
           handed == callback /\ online
       IN /\ message_counter' = message_counter + 1
          /\ routing_log' = Append(routing_log,
                 IF online THEN record ELSE [record EXCEPT !.status = "QUEUED"])
          /\ devices' = IF online
                        THEN [devices EXCEPT ![recipient].message_count = @ + 1]
                        ELSE devices
          /\ message_queue' = Put(message_queue, recipient,
                                  Append(Queued(recipient), packet))
          /\ delivered' = IF handed THEN Append(delivered, packet) ELSE delivered
          /\ gw_ret' = GatewayReturn("route_message", recipient, TRUE, <<>>)
    /\ UNCHANGED <<kmsvars, chatvars, devvars>>

get_pending_messages(device_id) ==
    /\ IF device_id \notin DOMAIN message_queue
       THEN UNCHANGED message_queue
       ELSE message_queue' = [message_queue EXCEPT ![device_id] = <<>>]
    /\ gw_ret' = GatewayReturn("get_pending_messages", device_id, TRUE,
                               Queued(device_id))
    /\ UNCHANGED <<devices, message_counter, routing_log, delivered>>
    /\ UNCHANGED <<kmsvars, chatvars, devvars>>

GatewayNext ==
    \/ \E d \in GatewayDevices : register_device(d)
    \/ \E d \in GatewayDevices : unregister_device(d)
    \/ \E s \in GatewayDevices, r \in GatewayDevices, callback \in BOOLEAN :
          route_message(s, r, callback)
    \/ \E d \in GatewayDevices : get_pending_messages(d)

(***************************************************************************)
(* Actions: one call of one method by one caller                          *)
(***************************************************************************)
SessionIds == 1..MaxIds

Within(st) ==
    /\ st.next_id <= MaxIds + 1
    /\ Len(st.metrics.qber_history) <= MaxRuns
    /\ st.metrics.total_keys_issued <= MaxKeys

\* The state after a call; created is the response of the create_session the
\* call made, whose key is recorded for every session the call stored.
Commit(r, created) ==
    /\ sessions' = r.st.sessions
    /\ pair_index' = r.st.pair_index
    /\ metrics' = r.st.metrics
    /\ eve_active' = r.st.eve_active
    /\ next_id' = r.st.next_id
    /\ issued' = [id \in DOMAIN r.st.sessions |->
                     IF id \in DOMAIN issued THEN issued[id]
                     ELSE created.view.key]
    /\ ret' = r.ret
    /\ UNCHANGED <<tvars, bb84, apart>>

Apply(r, created) == Within(r.st) /\ Commit(r, created)

\* What the simulator can return to a create_session for pair_key: one
\* result is enough when the call returns before it runs the simulator.
Draws(S, pair_key, eve_present) ==
    IF ExistingUnjoined(S, pair_key)
    THEN {SimResult(0, <<0, 0>>)}
    ELSE SimResults(eve_present)

Init ==
    /\ sessions = <<>>
    /\ pair_index = <<>>
    /\ metrics = KMSMetrics
    /\ eve_active = FALSE
    /\ next_id = 1
    /\ issued = <<>>
    /\ ret = Response("init", NoArgs, "ok")
    /\ ThreadInit
    /\ bb84 = NoExchange
    /\ ApartInit

CreateSession ==
    \E call \in CreateCalls :
      \E sim \in Draws(State, {call[1], call[2]}, eve_active),
         kyber \in KyberSecrets :
        LET r == create_session(State, call[1], call[2], call[3], sim, kyber)
        IN Apply(r, r.ret)

JoinSession ==
    \E session_id \in SessionIds, device_id \in JoinDevices :
        LET r == join_session(State, session_id, device_id)
        IN Apply(r, r.ret)

GetFreshKey ==
    \E call \in FreshKeyCalls, force_eve_attack \in BOOLEAN,
       kyber \in KyberSecrets :
      \E sim \in Draws(State, {call[1], call[2]}, force_eve_attack \/ eve_active) :
        LET r == get_fresh_key(State, call[1], force_eve_attack, FALSE,
                               call[2], sim, kyber)
        IN Apply(r, r.inner)

ActivateEve == Apply(activate_eve(State), ret)

DeactivateEve == Apply(deactivate_eve(State), ret)

TriggerAttack ==
    \E sim \in Draws(State, {ATTACK_PROBE, ATTACK_TARGET}, TRUE) :
        LET r == trigger_attack(State, sim)
        IN Apply(r, r.inner)

CheckLinkHealth == Apply(check_link_health(State), ret)

InvalidateSession ==
    \E session_id \in SessionIds : Apply(invalidate_session(State, session_id), ret)

Reset == Apply(reset(State), ret)

Next ==
    \/ CreateSession
    \/ JoinSession
    \/ GetFreshKey
    \/ ActivateEve
    \/ DeactivateEve
    \/ TriggerAttack
    \/ CheckLinkHealth
    \/ InvalidateSession
    \/ Reset

Spec == Init /\ [][Next]_vars

(***************************************************************************)
(* The life of the sessions of one pair: create_session, join_session and *)
(* invalidate_session for the pair A, B, with room for three exchanges.   *)
(***************************************************************************)
PairCalls == { <<"A", "B">>, <<"B", "A">> }

PairSessionIds == 1..MaxPairRuns

WithinPair(st) ==
    /\ Len(st.metrics.qber_history) <= MaxPairRuns
    /\ st.metrics.total_keys_issued <= MaxPairRuns + 1

PairCreate ==
    \E call \in PairCalls :
      \E sim \in Draws(State, {call[1], call[2]}, eve_active) :
        LET r == create_session(State, call[1], call[2], FALSE, sim, 0)
        IN WithinPair(r.st) /\ Commit(r, r.ret)

PairJoin ==
    \E session_id \in PairSessionIds :
        LET r == join_session(State, session_id, "B")
        IN WithinPair(r.st) /\ Commit(r, r.ret)

PairInvalidate ==
    \E session_id \in PairSessionIds :
        Commit(invalidate_session(State, session_id), ret)

PairNext == PairCreate \/ PairJoin \/ PairInvalidate

PairSpec == Init /\ [][PairNext]_vars

(***************************************************************************)
(* The demonstration flow: devices fetch keys through get_fresh_key with  *)
(* its default peer, attacks are triggered and the link health is read,   *)
(* for as many exchanges as it takes to fill the history past the window  *)
(* check_link_health shows.  The interceptor, once on, stays on, and the  *)
(* exchanges it disturbs have the error rate 0.25.                         *)
(***************************************************************************)
MaxHistory == 21   \* simulator runs in a behaviour of DemoSpec

\* line 310: the default of peer_id
BROADCAST == "_broadcast_"

DemoDevices == {"A", "B"}

DemoDraws(S, pair_key, eve_present) ==
    IF ExistingUnjoined(S, pair_key) THEN {SimResult(0, <<0, 0>>)}
    ELSE IF eve_present THEN {SimResult(7, <<64, 256>>)}
    ELSE SimResults(FALSE)

WithinDemo(st) == Len(st.metrics.qber_history) <= MaxHistory

DemoFreshKey ==
    \E device_id \in DemoDevices :
      \E sim \in DemoDraws(State, {device_id, BROADCAST}, eve_active) :
        LET r == get_fresh_key(State, device_id, FALSE, FALSE, BROADCAST, sim, 0)
        IN WithinDemo(r.st) /\ Commit(r, r.inner)

DemoAttack ==
    \E sim \in DemoDraws(State, {ATTACK_PROBE, ATTACK_TARGET}, TRUE) :
        LET r == trigger_attack(State, sim)
        IN WithinDemo(r.st) /\ Commit(r, r.inner)

DemoHealth == Commit(check_link_health(State), ret)

DemoNext == DemoFreshKey \/ DemoAttack \/ DemoHealth

DemoSpec == Init /\ [][DemoNext]_vars

(***************************************************************************)
(* One exchange.  The draw is made at the start; simulate_bb84 is called  *)
(* with it either directly or by create_session for the pair A, B, which  *)
(* passes self._eve_active as eve_present: the service being new, its     *)
(* exchanges are those without the interceptor.                            *)
(***************************************************************************)
SimInit ==
    /\ sessions = <<>>
    /\ pair_index = <<>>
    /\ metrics = KMSMetrics
    /\ eve_active = FALSE
    /\ next_id = 1
    /\ issued = <<>>
    /\ ret = Response("init", NoArgs, "ok")
    /\ ThreadInit
    /\ ApartInit
    /\ \E eve_present \in BOOLEAN :
          \/ \E n \in 0..MaxQubits :
               \E a \in BitSeqs(n), x \in BitSeqs(n), y \in BitSeqs(n),
                  e \in IF eve_present THEN BitSeqs(n) ELSE {<<>>},
                  c \in BitSeqs(n) :
                 /\ CoinsAsCalled(n, eve_present, Draw(a, x, y, e, c))
                 /\ bb84 = Exchange("drawn", n, eve_present, Draw(a, x, y, e, c))
          \/ \E d \in LongDraws(eve_present) :
                 bb84 = Exchange("drawn", LongQubits, eve_present, d)

Returned(x) ==
    [x EXCEPT !.stage = "returned",
              !.out = simulate_bb84(x.num_bits, x.eve_present, x.draw)]

SimulateBB84 ==
    /\ bb84.stage = "drawn"
    /\ bb84' = Returned(bb84)
    /\ UNCHANGED <<sessions, pair_index, metrics, eve_active, next_id, issued,
                   ret, tvars, apart>>

SimCreateSession ==
    /\ bb84.stage = "drawn"
    /\ bb84.eve_present = eve_active
    /\ bb84' = [Returned(bb84) EXCEPT !.stage = "used"]
    /\ LET r == create_session(State, "A", "B", FALSE, Returned(bb84).out, 0)
       IN /\ sessions' = r.st.sessions
          /\ pair_index' = r.st.pair_index
          /\ metrics' = r.st.metrics
          /\ eve_active' = r.st.eve_active
          /\ next_id' = r.st.next_id
          /\ issued' = [id \in DOMAIN r.st.sessions |-> r.ret.view.key]
          /\ ret' = r.ret
    /\ UNCHANGED <<tvars, apart>>

SimNext == SimulateBB84 \/ SimCreateSession

SimSpec == SimInit /\ [][SimNext]_vars

(***************************************************************************)
(* Threads.  Each method is cut where another thread can run: at the      *)
(* acquisition of self._lock, between two writes made while the lock is   *)
(* held (so that a reader without the lock would see the first without    *)
(* the second), and at every access to self._eve_active made without the  *)
(* lock (get_fresh_key, trigger_attack).                                   *)
(*                                                                         *)
(* Lines: "idle"; per method, <m>_lock waits for the lock and the lines   *)
(* after it hold it:                                                       *)
(*   create_session      cs_lock  cs_run  cs_store                         *)
(*   join_session        js_lock  js_body                                  *)
(*   get_fresh_key       gfk_read  gfk_force  gfk_lock  gfk_check          *)
(*                       (create_session)  gfk_finally                     *)
(*   activate_eve,                                                         *)
(*   deactivate_eve      eve_lock  eve_body                                *)
(*   trigger_attack      ta_set  (create_session)  (check_link_health)     *)
(*   check_link_health   clh_lock  clh_status  clh_rest                    *)
(*   invalidate_session  inv_lock  inv_body                                *)
(*   reset               rs_lock  rs_clear  rs_metrics                     *)
(***************************************************************************)
ThreadCalls ==
    { Frame("create_session", Args(0, "A", "B"), FALSE),
      Frame("join_session", Args(1, "B", ""), FALSE),
      Frame("join_session", Args(1, "C", ""), FALSE),
      Frame("get_fresh_key", Args(0, "B", "A"), FALSE),
      Frame("get_fresh_key", Args(0, "A", "B"), TRUE),
      Frame("activate_eve", NoArgs, FALSE),
      Frame("deactivate_eve", NoArgs, FALSE),
      Frame("trigger_attack", NoArgs, FALSE),
      Frame("check_link_health", NoArgs, FALSE),
      Frame("invalidate_session", Args(1, "", ""), FALSE),
      Frame("reset", NoArgs, FALSE) }

FirstLine(op) ==
    CASE op = "create_session" -> "cs_lock"
      [] op = "join_session" -> "js_lock"
      [] op = "get_fresh_key" -> "gfk_read"
      [] op \in {"activate_eve", "deactivate_eve"} -> "eve_lock"
      [] op = "trigger_attack" -> "ta_set"
      [] op = "check_link_health" -> "clh_lock"
      [] op = "invalidate_session" -> "inv_lock"
      [] op = "reset" -> "rs_lock"

\* the `with self._lock:` of each method: the line after it and the method
LockLines ==
    [cs_lock  |-> [next |-> "cs_run",     method |-> "create_session"],
     js_lock  |-> [next |-> "js_body",    method |-> "join_session"],
     gfk_lock |-> [next |-> "gfk_check",  method |-> "get_fresh_key"],
     eve_lock |-> [next |-> "eve_body",   method |-> "activate_eve"],
     clh_lock |-> [next |-> "clh_status", method |-> "check_link_health"],
     inv_lock |-> [next |-> "inv_body",   method |-> "invalidate_session"],
     rs_lock  |-> [next |-> "rs_clear",   method |-> "reset"]]

\* create_session runs its exchange without the lock
CanAcquire_create_unlocked(l, method) == method = "create_session" \/ l = {}
\* check_link_health reads without the lock
CanAcquire_health_unlocked(l, method) == method = "check_link_health" \/ l = {}

\* threading.Lock: acquired only while no thread holds it
CanAcquire(l, method) == l = {}

Released(l, t) == l \ {t}
\* an exception leaves the lock held
ReleasedOnRaise_held(l, t) == l

\* `with` leaves the lock when its body raises
ReleasedOnRaise(l, t) == l \ {t}

Release(t, kind) ==
    lock' = IF kind = "ok" THEN Released(lock, t) ELSE ReleasedOnRaise(lock, t)

\* the method on whose behalf create_session or check_link_health runs
Caller(f) == IF f.op \in {"get_fresh_key", "trigger_attack"} THEN f.op ELSE ""

\* another thread is inside a direct create_session call for pair_key
InCreate(u, pair_key) ==
    /\ pc[u] \in {"cs_lock", "cs_run", "cs_store"}
    /\ frame[u].op = "create_session"
    /\ {frame[u].args.device, frame[u].args.peer} = pair_key

\* the fields written under the lock
Store(st, created) ==
    /\ sessions' = st.sessions
    /\ pair_index' = st.pair_index
    /\ metrics' = st.metrics
    /\ next_id' = st.next_id
    /\ issued' = [id \in DOMAIN st.sessions |->
                     IF id \in DOMAIN issued THEN issued[id]
                     ELSE created.view.key]

stored == <<sessions, pair_index, metrics, next_id, issued>>

\* thread t returns resp (or raises it) from the call it was asked to make
Ret(t, resp) ==
    /\ pc' = [pc EXCEPT ![t] = "idle"]
    /\ frame' = [frame EXCEPT ![t] =
                    [Frame(@.op, @.args, @.force) EXCEPT
                        !.fresh = frame[t].fresh, !.overlap = frame[t].overlap]]
    /\ done' = [done EXCEPT ![t] = resp]
    /\ ret' = resp
    /\ UNCHANGED <<calls, bb84, apart>>

Goto(t, line, f) ==
    /\ pc' = [pc EXCEPT ![t] = line]
    /\ frame' = [frame EXCEPT ![t] = f]
    /\ UNCHANGED <<done, ret, calls, bb84, apart>>

Call(t) ==
    /\ pc[t] = "idle"
    /\ calls < MaxCalls
    /\ \E f \in ThreadCalls :
         LET pair_key == {f.args.device, f.args.peer}
             others == IF f.op = "create_session"
                       THEN {u \in Threads \ {t} : InCreate(u, pair_key)}
                       ELSE {}
             mine == [f EXCEPT
                        !.fresh = /\ f.op = "create_session"
                                  /\ \A id \in DOMAIN sessions :
                                       {sessions[id].initiator,
                                        sessions[id].peer} # pair_key,
                        !.overlap = others # {}]
         IN /\ frame' = [u \in Threads |->
                            IF u = t THEN mine
                            ELSE IF u \in others
                                 THEN [frame[u] EXCEPT !.overlap = TRUE]
                                 ELSE frame[u]]
            /\ pc' = [pc EXCEPT ![t] = FirstLine(f.op)]
    /\ calls' = calls + 1
    /\ UNCHANGED <<stored, eve_active, lock, done, ret, bb84, apart>>

Acquire(t) ==
    /\ pc[t] \in DOMAIN LockLines
    /\ CanAcquire(lock, LockLines[pc[t]].method)
    /\ lock' = lock \cup {t}
    /\ Goto(t, LockLines[pc[t]].next, frame[t])
    /\ UNCHANGED <<stored, eve_active>>

\* create_session returns resp to the method that called it
ReturnCreate(t, resp) ==
    CASE Caller(frame[t]) = "" -> Ret(t, resp)
      [] Caller(frame[t]) = "get_fresh_key" ->
            Goto(t, "gfk_finally",
                 [frame[t] EXCEPT !.kind = resp.kind, !.ran = resp.ran,
                                  !.r = None, !.key = resp.view.key])
      [] Caller(frame[t]) = "trigger_attack" ->
            Goto(t, "clh_lock",
                 [frame[t] EXCEPT !.kind = resp.kind, !.ran = resp.ran,
                                  !.r = None])

\* lines 143-192: the early return, or the exchange and the writes of
\* last_qber, qber_history and link_status
CreateRun(t) ==
    /\ pc[t] = "cs_run"
    /\ LET f == frame[t] IN
       \E sim \in Draws(State, {f.args.device, f.args.peer}, eve_active) :
         LET r == create_session(State, f.args.device, f.args.peer, FALSE, sim, 0)
         IN IF ~r.ret.ran
            THEN /\ Release(t, r.ret.kind)
                 /\ UNCHANGED <<stored, eve_active>>
                 /\ ReturnCreate(t, r.ret)
            ELSE /\ metrics' = [metrics EXCEPT
                       !.last_qber = r.st.metrics.last_qber,
                       !.qber_history = r.st.metrics.qber_history,
                       !.link_status = r.st.metrics.link_status]
                 /\ Goto(t, "cs_store", [f EXCEPT !.r = r])
                 /\ UNCHANGED <<sessions, pair_index, next_id, issued,
                                eve_active, lock>>

\* line 179 and the raise, or lines 195-246
CreateStore(t) ==
    /\ pc[t] = "cs_store"
    /\ LET r == frame[t].r IN
         /\ Store(r.st, r.ret)
         /\ Release(t, r.ret.kind)
         /\ ReturnCreate(t, r.ret)
    /\ UNCHANGED eve_active

JoinBody(t) ==
    /\ pc[t] = "js_body"
    /\ LET r == join_session(State, frame[t].args.session_id, frame[t].args.device)
       IN /\ Store(r.st, r.ret)
          /\ Release(t, r.ret.kind)
          /\ Ret(t, r.ret)
    /\ UNCHANGED eve_active

InvalidateBody(t) ==
    /\ pc[t] = "inv_body"
    /\ LET r == invalidate_session(State, frame[t].args.session_id)
       IN /\ Store(r.st, r.ret)
          /\ Release(t, r.ret.kind)
          /\ Ret(t, r.ret)
    /\ UNCHANGED eve_active

EveBody(t) ==
    /\ pc[t] = "eve_body"
    /\ LET r == IF frame[t].op = "activate_eve" THEN activate_eve(State)
                ELSE deactivate_eve(State)
       IN /\ eve_active' = r.st.eve_active
          /\ Release(t, r.ret.kind)
          /\ Ret(t, r.ret)
    /\ UNCHANGED stored

\* lines 447-448
ResetClear(t) ==
    /\ pc[t] = "rs_clear"
    /\ sessions' = reset(State).st.sessions
    /\ pair_index' = reset(State).st.pair_index
    /\ issued' = <<>>
    /\ Goto(t, "rs_metrics", frame[t])
    /\ UNCHANGED <<metrics, next_id, eve_active, lock>>

\* lines 449-450
ResetMetrics(t) ==
    /\ pc[t] = "rs_metrics"
    /\ LET r == reset(State)
       IN /\ metrics' = r.st.metrics
          /\ eve_active' = r.st.eve_active
          /\ Release(t, r.ret.kind)
          /\ Ret(t, r.ret)
    /\ UNCHANGED <<sessions, pair_index, next_id, issued>>

\* line 400: the first entry of the dictionary
HealthStatus(t) ==
    /\ pc[t] = "clh_status"
    /\ Goto(t, "clh_rest",
            [frame[t] EXCEPT !.status = check_link_health(State).ret.health.status])
    /\ UNCHANGED <<stored, eve_active, lock>>

\* lines 401-407: the other entries; then the return, of check_link_health
\* or of the trigger_attack that called it
HealthRest(t) ==
    /\ pc[t] = "clh_rest"
    /\ LET f == frame[t]
           health == [check_link_health(State).ret.health EXCEPT
                        !.status = f.status]
       IN /\ Release(t, "ok")
          /\ IF Caller(f) = "trigger_attack"
             THEN Ret(t, [Response("trigger_attack", NoArgs, "ok") EXCEPT
                            !.health = TriggerResult(health, f.kind # "ok"),
                            !.ran = f.ran])
             ELSE Ret(t, [Response("check_link_health", NoArgs, "ok") EXCEPT
                            !.health = health])
    /\ UNCHANGED <<stored, eve_active>>

\* line 319
GfkRead(t) ==
    /\ pc[t] = "gfk_read"
    /\ Goto(t, IF frame[t].force THEN "gfk_force" ELSE "gfk_lock",
            [frame[t] EXCEPT !.old_eve = eve_active])
    /\ UNCHANGED <<stored, eve_active, lock>>

\* line 321
GfkForce(t) ==
    /\ pc[t] = "gfk_force"
    /\ eve_active' = TRUE
    /\ Goto(t, "gfk_lock", frame[t])
    /\ UNCHANGED <<stored, lock>>

\* lines 326-334: join the pair's session, or leave the lock and go on to
\* create_session
GfkCheck(t) ==
    /\ pc[t] = "gfk_check"
    /\ LET f == frame[t]
           pair_key == {f.args.device, f.args.peer}
       IN IF CanJoinExisting(State, f.args.device, pair_key)
          THEN LET sid == pair_index[pair_key] IN
               /\ sessions' = [sessions EXCEPT ![sid].joined = TRUE]
               /\ metrics' = [metrics EXCEPT !.total_keys_issued = @ + 1]
               /\ Goto(t, "gfk_finally", [f EXCEPT !.key = sessions[sid].key])
               /\ UNCHANGED <<pair_index, next_id, issued>>
          ELSE /\ Goto(t, "cs_lock", f)
               /\ UNCHANGED stored
    /\ Release(t, "ok")
    /\ UNCHANGED eve_active

\* line 346, and the return or the exception passed on
GfkFinally(t) ==
    /\ pc[t] = "gfk_finally"
    /\ eve_active' = frame[t].old_eve
    /\ Ret(t, [Response("get_fresh_key", frame[t].args, frame[t].kind) EXCEPT
                  !.key = frame[t].key, !.ran = frame[t].ran])
    /\ UNCHANGED <<stored, lock>>

\* line 374
TaSet(t) ==
    /\ pc[t] = "ta_set"
    /\ eve_active' = TRUE
    /\ Goto(t, "cs_lock",
            [frame[t] EXCEPT !.args = Args(0, ATTACK_PROBE, ATTACK_TARGET)])
    /\ UNCHANGED <<stored, lock>>

ThreadStep(t) ==
    \/ Acquire(t)
    \/ CreateRun(t)
    \/ CreateStore(t)
    \/ JoinBody(t)
    \/ InvalidateBody(t)
    \/ EveBody(t)
    \/ ResetClear(t)
    \/ ResetMetrics(t)
    \/ HealthStatus(t)
    \/ HealthRest(t)
    \/ GfkRead(t)
    \/ GfkForce(t)
    \/ GfkCheck(t)
    \/ GfkFinally(t)
    \/ TaSet(t)

ThreadNext == \E t \in Threads : Call(t) \/ ThreadStep(t)

ThreadSpec == Init /\ [][ThreadNext]_vars

\* every thread that can take a step eventually takes one
FairThreadSpec == ThreadSpec /\ \A t \in Threads : WF_vars(ThreadStep(t))

(***************************************************************************)
(* FreshKeySpec: device A asks get_fresh_key(peer_id = B) while device B   *)
(* asks get_fresh_key(peer_id = A), one call each and no attack forced,    *)
(* on a service that holds nothing, or one session of the pair, joined or  *)
(* not.                                                                    *)
(***************************************************************************)
Quiet == SimResult(7, <<0, 256>>)

Fresh == [sessions |-> <<>>, pair_index |-> <<>>, metrics |-> KMSMetrics,
          eve_active |-> FALSE, next_id |-> 1]

\* the service after create_session(initiator, peer) on a new service
AfterCreate(initiator, peer) ==
    create_session(Fresh, initiator, peer, FALSE, Quiet, 0).st

\* and after the peer's join_session
AfterJoin(initiator, peer) ==
    join_session(AfterCreate(initiator, peer), 1, peer).st

FreshKeyStarts ==
    {Fresh, AfterCreate("A", "B"), AfterCreate("B", "A"),
     AfterJoin("A", "B"), AfterJoin("B", "A")}

FreshKeyInit ==
    /\ \E S \in FreshKeyStarts :
         /\ sessions = S.sessions
         /\ pair_index = S.pair_index
         /\ metrics = S.metrics
         /\ eve_active = S.eve_active
         /\ next_id = S.next_id
         /\ issued = [id \in DOMAIN S.sessions |-> S.sessions[id].key]
    /\ ret = Response("init", NoArgs, "ok")
    /\ ThreadInit
    /\ bb84 = NoExchange
    /\ ApartInit

\* the call each thread makes
FreshKeyFrame(t) ==
    IF t = 1
    THEN Frame("get_fresh_key", Args(0, "A", "B"), FALSE)
    ELSE Frame("get_fresh_key", Args(0, "B", "A"), FALSE)

FreshKeyCall(t) ==
    /\ pc[t] = "idle"
    /\ frame[t].op = "none"
    /\ frame' = [frame EXCEPT ![t] = FreshKeyFrame(t)]
    /\ pc' = [pc EXCEPT ![t] = FirstLine("get_fresh_key")]
    /\ calls' = calls + 1
    /\ UNCHANGED <<stored, eve_active, lock, done, ret, bb84, apart>>

FreshKeyStep(t) ==
    \/ Acquire(t)
    \/ GfkRead(t)
    \/ GfkCheck(t)
    \/ CreateRun(t)
    \/ CreateStore(t)
    \/ GfkFinally(t)

FreshKeyNext == \E t \in Threads : FreshKeyCall(t) \/ FreshKeyStep(t)

FreshKeySpec == FreshKeyInit /\ [][FreshKeyNext]_vars

(***************************************************************************)
(* ChatSpec: the relay alone                                               *)
(***************************************************************************)
ChatSpec == Init /\ [][ChatNext]_vars

GatewaySpec == Init /\ [][GatewayNext]_vars

(***************************************************************************)
(* DeviceSpec: one SoldierDevice (devices/client.py) and the service it    *)
(* asks for keys; sessions are invalidated and the service is reset        *)
(* beside it.  AES-GCM is a symbolic term of the key, the nonce and the    *)
(* plaintext; receive_encrypted_message is left out.                       *)
(***************************************************************************)
MaxSent == 2     \* messages encrypted in a behaviour of DeviceSpec

DEVICE_ID == "A"
Recipients == {"B"}
Nonces == {1, 2}         \* os.urandom(12)
Plaintexts == {"Grid 1234"}

\* has_key
HasKey(key) == key # NoKey

\* request_key that leaves the key it holds when the request fails
KeyAfterRequest_kept(key, resp) ==
    IF resp.kind = "ok" THEN resp.key ELSE key

\* lines 133-143: self._current_key after get_fresh_key returned or raised resp
KeyAfterRequest(key, resp) ==
    IF resp.kind = "ok" THEN resp.key ELSE NoKey

\* AESGCM(key).encrypt(nonce, plaintext, None)
Encrypt(key, nonce, plaintext) ==
    [key |-> key, nonce |-> nonce, plaintext |-> plaintext]

\* lines 193-199
MessagePacket(sender, recipient, nonce, ciphertext) ==
    [sender |-> sender, recipient |-> recipient, nonce |-> nonce,
     ciphertext |-> ciphertext]

\* request_key(force_attack): get_fresh_key with the default peer
RequestKey ==
    \E force_attack \in BOOLEAN :
      \E sim \in Draws(State, {DEVICE_ID, BROADCAST}, force_attack \/ eve_active) :
        LET r == get_fresh_key(State, DEVICE_ID, force_attack, FALSE,
                               BROADCAST, sim, 0)
            ok == r.ret.kind = "ok"
        IN /\ Within(r.st)
           /\ Store(r.st, r.inner)
           /\ eve_active' = r.st.eve_active
           /\ ret' = r.ret
           /\ current_key' = KeyAfterRequest(current_key, r.ret)
           /\ dev_ret' = DeviceReturn("request_key", ok, NoPacket)
           /\ last_request' = IF ok THEN "ok" ELSE "failed"
           /\ UNCHANGED <<messages_sent, tvars, bb84, chatvars, gwvars>>

SendEncryptedMessage ==
    \E recipient_id \in Recipients, nonce \in Nonces, plaintext \in Plaintexts :
       /\ IF ~HasKey(current_key)
          THEN /\ dev_ret' = DeviceReturn("send_encrypted_message", FALSE, NoPacket)
               /\ UNCHANGED messages_sent
          ELSE /\ messages_sent < MaxSent
               /\ messages_sent' = messages_sent + 1
               /\ dev_ret' = DeviceReturn("send_encrypted_message", TRUE,
                      MessagePacket(DEVICE_ID, recipient_id, nonce,
                                    Encrypt(current_key, nonce, plaintext)))
       /\ UNCHANGED <<current_key, last_request, kmsvars, chatvars, gwvars>>

DeviceNext ==
    \/ RequestKey
    \/ SendEncryptedMessage
    \/ InvalidateSession
    \/ Reset

DeviceSpec == Init /\ [][DeviceNext]_vars

(***************************************************************************)
(* Properties                                                              *)
(***************************************************************************)
core == <<sessions, pair_index, metrics, eve_active, next_id>>

PairOf(session) == {session.initiator, session.peer}

Counters(m) == <<m.total_keys_issued, m.total_sessions, m.attacks_detected,
                 m.active_sessions>>

\* C1: a successful join_session returns the key that the create_session
\* which stored the session returned, whatever happened in between.
C1_JoinReturnsCreatedKey ==
    (ret.op = "join_session" /\ ret.kind = "ok") =>
        /\ ret.view.session_id \in DOMAIN issued
        /\ ret.view.key = issued[ret.view.session_id]

\* a join that succeeded after an attack turned the link RED with the
\* eavesdropper still on
C1_Witness ==
    /\ ret.op = "join_session" /\ ret.kind = "ok"
    /\ eve_active
    /\ metrics.link_status = RED

\* C2: each unordered pair has at most one session in the store that is
\* not COMPROMISED (RED).
C2_OneActiveSessionPerPair ==
    \A a \in DOMAIN sessions, b \in DOMAIN sessions :
        ( /\ PairOf(sessions[a]) = PairOf(sessions[b])
          /\ sessions[a].status # RED
          /\ sessions[b].status # RED ) => a = b

\* C3: every entry of the pairing index refers to a session that is in the
\* store and is not COMPROMISED (RED).
C3_PairIndexRefersToActive ==
    \A pair_key \in DOMAIN pair_index :
        /\ pair_index[pair_key] \in DOMAIN sessions
        /\ sessions[pair_index[pair_key]].status # RED

\* C4: a create_session attempt (made directly, by get_fresh_key or by
\* trigger_attack) whose exchange has an error rate above the threshold
\* stores no session, leaves the pairing index as it was, adds exactly 1 to
\* attacks_detected, sets the link status to RED, and raises the
\* link-compromised error (which get_fresh_key passes on).
C4_RejectedCreate ==
    [][ (ret'.ran /\ QGT(metrics'.last_qber, QBER_SECURITY_THRESHOLD)) =>
            /\ sessions' = sessions
            /\ pair_index' = pair_index
            /\ metrics'.attacks_detected = metrics.attacks_detected + 1
            /\ metrics'.link_status = RED
            /\ (ret'.op \in {"create_session", "get_fresh_key"}
                    => ret'.kind = "LinkCompromised") ]_vars

\* a create_session rejected while a session is stored and indexed
C4_Witness ==
    /\ ret.op = "create_session" /\ ret.kind = "LinkCompromised"
    /\ DOMAIN sessions # {}
    /\ DOMAIN pair_index # {}
    /\ metrics.attacks_detected = 1

\* C5: every session in the store has an error rate that is not above the
\* security threshold.
C5_StoredSessionsPassedThreshold ==
    \A id \in DOMAIN sessions :
        ~QGT(sessions[id].qber, QBER_SECURITY_THRESHOLD)

\* a session stored with an error rate exactly at the threshold, after an
\* earlier exchange was rejected
C5_Witness ==
    /\ \E id \in DOMAIN sessions : sessions[id].qber = QBER_SECURITY_THRESHOLD
    /\ metrics.attacks_detected > 0

\* C6: after a create_session attempt that ran the simulator the link status
\* follows from that attempt's error rate alone: GREEN below 0.05, YELLOW from
\* 0.05 up to and including the threshold, RED (and nothing stored) above it.
ExpectedStatus(qber) ==
    IF QLT(qber, GREEN_LIMIT) THEN GREEN
    ELSE IF QGT(qber, QBER_SECURITY_THRESHOLD) THEN RED
    ELSE YELLOW

C6_StatusFromErrorRateAlone ==
    [][ ret'.ran =>
            /\ metrics'.link_status = ExpectedStatus(metrics'.last_qber)
            /\ (ExpectedStatus(metrics'.last_qber) = RED
                    => sessions' = sessions) ]_vars

\* C7: create_session with initiator = peer raises InvalidPairing and stores
\* no session, adds no pairing-index entry and changes no counter.
C7_SelfPairRejected ==
    [][ (ret'.op = "create_session" /\ ret'.args.device = ret'.args.peer) =>
            /\ ret'.kind = "InvalidPairing"
            /\ sessions' = sessions
            /\ pair_index' = pair_index
            /\ Counters(metrics') = Counters(metrics) ]_vars

\* C8: join_session of a stored session by a device that is neither its
\* initiator nor its peer raises the not-a-participant error and changes
\* nothing: not the joined flag, not the counters, not any other state.
C8_NonParticipantJoin ==
    [][ ( /\ ret'.op = "join_session"
          /\ ret'.args.session_id \in DOMAIN sessions
          /\ ret'.args.device \notin PairOf(sessions[ret'.args.session_id]) ) =>
            /\ ret'.kind = "NotAParticipant"
            /\ UNCHANGED core ]_vars

\* an outsider was refused on a session nobody has joined
C8_Witness ==
    /\ ret.op = "join_session" /\ ret.kind = "NotAParticipant"
    /\ ret.args.session_id \in DOMAIN sessions
    /\ ~sessions[ret.args.session_id].joined

\* C9: a join_session that follows invalidate_session of the same session,
\* by the initiator or the peer of that session, raises the
\* session-compromised error.
C9_JoinInvalidatedIsCompromised ==
    [][ ( /\ ret.op = "invalidate_session" /\ ret.flag
          /\ ret'.op = "join_session"
          /\ ret'.args.session_id = ret.args.session_id
          /\ ret'.args.device \in {ret.view.initiator, ret.view.peer} ) =>
            ret'.kind = "SessionCompromised" ]_vars

\* C10: join_session with a session id that is not in the store raises the
\* not-found error and changes no session, index entry or metric.
C10_UnknownSessionJoin ==
    [][ ( /\ ret'.op = "join_session"
          /\ ret'.args.session_id \notin DOMAIN sessions ) =>
            /\ ret'.kind = "NotFound"
            /\ UNCHANGED core ]_vars

\* an unknown id was refused while sessions are stored and keys were issued
C10_Witness ==
    /\ ret.op = "join_session" /\ ret.kind = "NotFound"
    /\ DOMAIN sessions # {}
    /\ metrics.total_keys_issued > 0

\* C11: when a session of the pair that is not COMPROMISED (RED) and not yet
\* joined is in the store, create_session for the pair, in either argument
\* order, returns that session (same id, same key), does not run the
\* simulator, stores nothing and leaves the pairing index, the counters, the
\* link status and the error-rate history as they were.
OpenSessions(pair_key) ==
    {id \in DOMAIN sessions : /\ PairOf(sessions[id]) = pair_key
                              /\ sessions[id].status # RED
                              /\ ~sessions[id].joined}

C11_CreateIsIdempotent ==
    [][ ( /\ ret'.op = "create_session"
          /\ OpenSessions({ret'.args.device, ret'.args.peer}) # {} ) =>
            /\ ret'.kind = "ok"
            /\ ~ret'.ran
            /\ ret'.view.session_id \in
                   OpenSessions({ret'.args.device, ret'.args.peer})
            /\ ret'.view.key = sessions[ret'.view.session_id].key
            /\ sessions' = sessions
            /\ pair_index' = pair_index
            /\ metrics' = metrics ]_vars

\* C13: every trigger_attack call ends with the link status RED and with
\* attacks_detected exactly 1 higher than before the call.
C13_TriggerAttackTurnsRed ==
    [][ ret'.op = "trigger_attack" =>
            /\ metrics'.link_status = RED
            /\ metrics'.attacks_detected = metrics.attacks_detected + 1 ]_vars

\* C15: while the eavesdropper flag is on, a create_session for a pair that
\* has no session in the store raises the link-compromised error and stores
\* no session.
C15_EveBlocksNewSessions ==
    [][ ( /\ eve_active
          /\ ret'.op = "create_session"
          /\ \A id \in DOMAIN sessions :
                PairOf(sessions[id]) # {ret'.args.device, ret'.args.peer} ) =>
            /\ ret'.kind = "LinkCompromised"
            /\ sessions' = sessions ]_vars

\* C16: activate_eve and deactivate_eve set the eavesdropper flag and change
\* nothing else: not the sessions (keys, statuses, joined flags), not the
\* pairing index, not the counters, the link status or the history.
C16_EveTogglesOnlyTheFlag ==
    [][ ret'.op \in {"activate_eve", "deactivate_eve"} =>
            /\ eve_active' = (ret'.op = "activate_eve")
            /\ UNCHANGED <<sessions, pair_index, metrics, next_id>> ]_vars

\* the eavesdropper was switched off while a session was stored and the link
\* was RED
C16_Witness ==
    /\ ret.op = "deactivate_eve"
    /\ ~eve_active
    /\ DOMAIN sessions # {}
    /\ metrics.link_status = RED

\* C17: right after reset the session store and the pairing index are empty,
\* the eavesdropper flag is off, and the health is that of a new service:
\* status GREEN, total_sessions, total_keys_issued, attacks_detected and
\* active_sessions 0.
C17_ResetRestoresInitialState ==
    ret.op = "reset" =>
        /\ sessions = <<>>
        /\ pair_index = <<>>
        /\ ~eve_active
        /\ metrics = KMSMetrics
        /\ Health(State) = NoHealth
        /\ Health(State).status = GREEN
        /\ Counters(metrics) = <<0, 0, 0, 0>>

\* a reset of a service that had handed out every session id
C17_Witness ==
    /\ ret.op = "reset"
    /\ next_id = MaxIds + 1

\* C18: check_link_health returns the health of the state it is called in
\* and changes nothing: sessions, pairing index, counters, link status,
\* history and eavesdropper flag are the same after the call.
C18_HealthCheckIsReadOnly ==
    [][ ret'.op = "check_link_health" =>
            /\ UNCHANGED core
            /\ ret'.health = Health(State) ]_vars

\* the health was read while the link was RED, an attack was counted and a
\* session was stored
C18_Witness ==
    /\ ret.op = "check_link_health"
    /\ ret.health.status = RED
    /\ ret.health.attacks_detected > 0
    /\ DOMAIN sessions # {}

\* C12: two create_session calls for the same pair that were in progress at
\* the same time, both started when the pair had no session, and both
\* returned: they return the same session (id and key), the simulator ran in
\* only one of them, and the store holds exactly one session of the pair.
ArgsPair(args) == {args.device, args.peer}

Concurrent(t, u) ==
    /\ t # u
    /\ pc[t] = "idle" /\ pc[u] = "idle"
    /\ frame[t].op = "create_session" /\ frame[u].op = "create_session"
    /\ ArgsPair(frame[t].args) = ArgsPair(frame[u].args)
    /\ frame[t].overlap /\ frame[u].overlap
    /\ frame[t].fresh /\ frame[u].fresh
    /\ done[t].kind = "ok" /\ done[u].kind = "ok"

C12_ConcurrentCreatesShareOneSession ==
    \A t \in Threads, u \in Threads :
        Concurrent(t, u) =>
            /\ done[t].view.session_id = done[u].view.session_id
            /\ done[t].view.key = done[u].view.key
            /\ ~(done[t].ran /\ done[u].ran)
            /\ Cardinality({id \in DOMAIN sessions :
                              PairOf(sessions[id]) = ArgsPair(frame[t].args)}) = 1

\* two overlapping calls have returned; the one that took the lock second
\* did not run the simulator
C12_Witness ==
    /\ Concurrent(1, 2)
    /\ done[1].ran /\ ~done[2].ran
    /\ done[2].view.session_id \in DOMAIN sessions

\* C14: once trigger_attack has returned the eavesdropper flag is on, and it
\* stays on as long as no deactivate_eve or reset is called, whatever other
\* calls (get_fresh_key included) run at the same time or afterwards.
C14_EveStaysOnAfterAttack ==
    \A t \in Threads :
        ( /\ pc[t] = "idle"
          /\ frame[t].op = "trigger_attack"
          /\ \A u \in Threads \ {t} :
                frame[u].op \notin {"deactivate_eve", "reset"} )
        => eve_active

\* C19: the dictionary a check_link_health call returns is the health of the
\* state at the moment of its return, and at that moment no other thread
\* stands between two writes of a call that changes the metrics.
PartlyApplied == {"cs_store", "rs_metrics"}

C19_HealthSnapshotIsConsistent ==
    [][ \A t \in Threads :
          ( /\ pc[t] = "clh_rest" /\ pc'[t] = "idle"
            /\ frame[t].op = "check_link_health" ) =>
              /\ done'[t].health = Health(State)
              /\ \A u \in Threads \ {t} : pc[u] \notin PartlyApplied ]_vars

\* a health check returned the alarm and the attack count of a
\* trigger_attack that the other thread has not finished yet
C19_Witness ==
    /\ ret.op = "check_link_health"
    /\ ret.health.status = RED
    /\ ret.health.attacks_detected = 1
    /\ \E u \in Threads : pc[u] = "clh_lock" /\ frame[u].op = "trigger_attack"

\* C20: whenever a call is in progress or the lock is held, a moment follows
\* at which every call has returned (or raised) and the lock is free; and a
\* thread that is not in a call never holds the lock.  This holds after
\* calls that failed as well.
Busy == lock # {} \/ \E t \in Threads : pc[t] # "idle"

C20_EveryCallReturns ==
    /\ [](Busy => <>(~Busy))
    /\ [](\A t \in Threads : pc[t] = "idle" => t \notin lock)

\* a call has raised the link-compromised error, the lock is free and the
\* other thread stands at a lock
C20_Witness ==
    \E t \in Threads, u \in Threads :
        /\ pc[t] = "idle"
        /\ frame[t].op # "none"
        /\ done[t].kind = "LinkCompromised"
        /\ lock = {}
        /\ pc[u] \in DOMAIN LockLines

(***************************************************************************)
(* Keys and counters (C21 onwards)                                         *)
(***************************************************************************)
\* the key a response carries: get_fresh_key returns the bare key, the
\* other methods a session dictionary
ReturnedKey(r) == IF r.op = "get_fresh_key" THEN r.key ELSE r.view.key

C22_SecondDeviceGetsSameKey ==
    [][ ( /\ ret.op = "get_fresh_key" /\ ret.kind = "ok"
          /\ ret'.op = "get_fresh_key" /\ ret'.kind = "ok"
          /\ ret.args.peer = BROADCAST /\ ret'.args.peer = BROADCAST
          /\ ret'.args.device # ret.args.device ) =>
            ret'.key = ret.key ]_vars

\* C25: the error-rate history of the link metrics never holds more than
\* 20 samples, however many exchanges create_session has run.
C25_HistoryIsBounded == Len(metrics.qber_history) <= HISTORY_WINDOW

\* what a step adds to the two issuing counters if the claim is right: a
\* session stored by the step is a successful creation, a join_session that
\* returned, or a get_fresh_key that set the joined flag, a successful join
StoredByStep == DOMAIN sessions' \ DOMAIN sessions

JoinedByStep ==
    \/ ret'.op = "join_session" /\ ret'.kind = "ok"
    \/ /\ ret'.op = "get_fresh_key"
       /\ \E id \in DOMAIN sessions \cap DOMAIN sessions' :
             sessions'[id].joined /\ ~sessions[id].joined

\* C23: total_keys_issued counts the successful creations and the
\* successful joins since the last reset, total_sessions the successful
\* creations: reset sets both to 0, every other call adds to
\* total_sessions the number of sessions it stored and to
\* total_keys_issued that number plus one if it was a successful join; a
\* failed create or join and a repeated fetch of an unjoined session add
\* nothing.
C23_IssuingCountersCountSuccesses ==
    [][ IF ret'.op = "reset"
        THEN metrics'.total_keys_issued = 0 /\ metrics'.total_sessions = 0
        ELSE /\ metrics'.total_sessions =
                    metrics.total_sessions + Cardinality(StoredByStep)
             /\ metrics'.total_keys_issued =
                    metrics.total_keys_issued + Cardinality(StoredByStep)
                        + (IF JoinedByStep THEN 1 ELSE 0) ]_vars

\* a second join of the same session by a participant was counted, after a
\* rejected creation had been left out
C23_Witness ==
    /\ ret.op = "join_session" /\ ret.kind = "ok"
    /\ metrics.total_keys_issued = 3 /\ metrics.total_sessions = 1
    /\ metrics.attacks_detected > 0

\* C24: in every state the active_sessions metric is the number of stored
\* sessions whose status is not RED.
C24_ActiveSessionsIsTheCount ==
    \E live \in SUBSET (DOMAIN sessions) :
        /\ \A id \in DOMAIN sessions : id \in live <=> sessions[id].status # RED
        /\ metrics.active_sessions = Cardinality(live)

\* a session is stored with status RED and is not counted
C24_Witness ==
    /\ \E id \in DOMAIN sessions : sessions[id].status = RED
    /\ metrics.active_sessions = 0
    /\ metrics.total_sessions = 1

\* C30: a session that stays in the store keeps its key, its initiator, its
\* peer and its error rate; its joined flag, once true, stays true, and it
\* becomes true only in a join_session or get_fresh_key that returned the
\* session's key to its initiator or its peer.
C30_StoredSessionsAreStable ==
    [][ \A id \in DOMAIN sessions \cap DOMAIN sessions' :
          /\ sessions'[id].key = sessions[id].key
          /\ sessions'[id].initiator = sessions[id].initiator
          /\ sessions'[id].peer = sessions[id].peer
          /\ sessions'[id].qber = sessions[id].qber
          /\ sessions[id].joined => sessions'[id].joined
          /\ (~sessions[id].joined /\ sessions'[id].joined) =>
                /\ ret'.op \in {"join_session", "get_fresh_key"}
                /\ ret'.kind = "ok"
                /\ ReturnedKey(ret') = sessions[id].key
                /\ ret'.args.device \in PairOf(sessions[id]) ]_vars

\* the initiator itself joined its session, which nobody had joined, while
\* another session was stored
C30_Witness ==
    /\ ret.op = "join_session" /\ ret.kind = "ok"
    /\ ret.args.session_id \in DOMAIN sessions
    /\ ret.args.device = sessions[ret.args.session_id].initiator
    /\ ret.args.device # sessions[ret.args.session_id].peer
    /\ sessions[ret.args.session_id].joined
    /\ metrics.total_keys_issued = metrics.total_sessions + 1
    /\ Cardinality(DOMAIN sessions) = 2

(***************************************************************************)
(* The exchange (C26 to C29), under SimSpec                                *)
(***************************************************************************)
\* simulate_bb84 has returned, to a direct caller or to create_session
HasReturned == bb84.stage \in {"returned", "used"}

\* the positions where the bases of sender and receiver agree
SiftedPositions ==
    {p \in 1..bb84.num_bits : bb84.draw.alice_bases[p] = bb84.draw.bob_bases[p]}

CleanResult ==
    /\ QLT(bb84.out.qber, <<5, 100>>)
    /\ ~bb84.out.attack_detected

\* C26 as stated: without the interceptor and without noise the exchange
\* returns an error rate below 0.05 and detects nothing, whatever the
\* sender's bits and the two parties' bases are (at least one qubit sent).
C26_QuietChannelIsClean ==
    (HasReturned /\ ~bb84.eve_present /\ bb84.num_bits >= 1) => CleanResult

\* C26, amended: the same, for the draws in which the two parties' bases
\* agree at one position at least.
C26_QuietChannelIsCleanWhenSifted ==
    (HasReturned /\ ~bb84.eve_present /\ bb84.num_bits >= 1
        /\ SiftedPositions # {}) => CleanResult

\* a long exchange without the interceptor in which every second position
\* is retained
C26_Witness ==
    /\ bb84.stage = "returned" /\ ~bb84.eve_present
    /\ bb84.num_bits = LongQubits
    /\ SiftedPositions # {} /\ SiftedPositions # 1..LongQubits
    /\ \E p \in SiftedPositions : bb84.draw.alice_bits[p] = 1
    /\ bb84.out.qber = <<0, 1>>

\* C27: the key material simulate_bb84 returns is a string of exactly 32
\* bytes, whatever the number of qubits and of retained positions.
C27_KeyHas32Bytes ==
    HasReturned =>
        /\ DOMAIN bb84.out.raw_key = 1..32
        /\ \A b \in 1..32 : bb84.out.raw_key[b] \in 0..255

\* more positions were retained than a key has bits
C27_Witness ==
    /\ HasReturned
    /\ Cardinality(SiftedPositions) > 256
    /\ bb84.out.raw_key[32] # 0

\* bit j of a byte string, the first bit the highest of the first byte
KeyBit(key, j) ==
    (key[((j - 1) \div 8) + 1] \div (2 ^ (7 - ((j - 1) % 8)))) % 2

\* how many retained positions there are up to p
Rank(p) == Cardinality({q \in SiftedPositions : q <= p})

\* C28: bit j of the key is the sender's bit at the j-th retained position,
\* for j up to 256, and 0 when fewer than j positions are retained; the
\* receiver's measurements and the interceptor have no part in it.
C28_KeyIsThePackedSenderBits ==
    HasReturned =>
        /\ Len(bb84.out.raw_key) = 32
        /\ \A p \in SiftedPositions :
              Rank(p) <= 256 =>
                  KeyBit(bb84.out.raw_key, Rank(p)) = bb84.draw.alice_bits[p]
        /\ \A j \in (Cardinality(SiftedPositions) + 1)..256 :
              KeyBit(bb84.out.raw_key, j) = 0

\* the interceptor disturbed an exchange that retained 129 positions, the
\* receiver measured wrong bits, and the key has bits set in its first and
\* in its seventeenth byte
C28_Witness ==
    /\ HasReturned /\ bb84.eve_present
    /\ Cardinality(SiftedPositions) = 129
    /\ bb84.out.attack_detected
    /\ bb84.out.raw_key[1] # 0 /\ bb84.out.raw_key[17] # 0
    /\ bb84.out.raw_key[18] = 0

\* C29: when the bases agree at no position the exchange returns the error
\* rate 1.0 and reports an interception, and the create_session that ran
\* it raises the link-compromised error and stores no session.
C29_NothingSiftedIsRejected ==
    (HasReturned /\ SiftedPositions = {}) =>
        /\ bb84.out.qber = <<1, 1>>
        /\ bb84.out.attack_detected
        /\ (bb84.stage = "used" =>
              /\ ret.op = "create_session" /\ ret.kind = "LinkCompromised"
              /\ sessions = <<>>
              /\ metrics.attacks_detected = 1
              /\ metrics.link_status = RED)

\* create_session, without the interceptor, ran a long exchange that
\* retained nothing
C29_Witness ==
    /\ bb84.stage = "used" /\ ~bb84.eve_present
    /\ bb84.num_bits = LongQubits
    /\ SiftedPositions = {}
    /\ ret.op = "create_session" /\ ret.kind = "LinkCompromised"

(***************************************************************************)
(* Frame conditions of the service (C31, C32)                              *)
(***************************************************************************)
\* C31: invalidate_session removes the session it is given and the entry
\* of the pairing index that refers to it, and nothing else: every other
\* session stays stored and every index entry that refers to another
\* session stays as it is.
C31_InvalidateRemovesOnlyItsOwnEntry ==
    [][ ret'.op = "invalidate_session" =>
          /\ \A id \in DOMAIN sessions \ {ret'.args.session_id} :
                id \in DOMAIN sessions' /\ sessions'[id] = sessions[id]
          /\ \A pair_key \in DOMAIN pair_index :
                pair_index[pair_key] # ret'.args.session_id =>
                    /\ pair_key \in DOMAIN pair_index'
                    /\ pair_index'[pair_key] = pair_index[pair_key] ]_vars

\* the step was a call that ran the simulator: a create_session, or a
\* get_fresh_key or trigger_attack that called it
RanExchange ==
    /\ ret'.op \in {"create_session", "get_fresh_key", "trigger_attack"}
    /\ ret'.ran

\* C32: the link status changes only in a call that ran an exchange or in
\* reset; join_session, invalidate_session, activate_eve, deactivate_eve,
\* check_link_health and a create_session that returns the pair's unjoined
\* session leave it as it is.  RED in particular stays until an exchange
\* is accepted and its session stored, or until reset.
C32_LinkStatusChangesOnlyWithAnExchange ==
    [][ /\ metrics'.link_status # metrics.link_status =>
              RanExchange \/ ret'.op = "reset"
        /\ (metrics.link_status = RED /\ metrics'.link_status # RED) =>
              \/ RanExchange /\ DOMAIN sessions' \ DOMAIN sessions # {}
              \/ ret'.op = "reset" ]_vars

\* the link is RED and the interceptor was switched off: the status stayed
C32_Witness ==
    /\ ret.op = "deactivate_eve"
    /\ metrics.link_status = RED
    /\ ~eve_active
    /\ DOMAIN sessions # {}

(***************************************************************************)
(* Threads in get_fresh_key (C33, C34), under ThreadSpec                   *)
(***************************************************************************)
\* every thread is idle and has made at most one call: frame[t].op is the
\* call thread t made ("none" if it made none)
OneCallEach ==
    /\ \A t \in Threads : pc[t] = "idle"
    /\ calls = Cardinality({t \in Threads : frame[t].op # "none"})

CallsMade == {frame[t].op : t \in Threads} \ {"none"}

\* the flag is off once get_fresh_key calls alone have completed
C33_OffAfterFreshKeys ==
    (OneCallEach /\ CallsMade \subseteq {"get_fresh_key"}) => ~eve_active

\* an activate_eve made before, during or after a get_fresh_key stands
C33_ActivateStands ==
    (OneCallEach /\ CallsMade = {"get_fresh_key", "activate_eve"}) => eve_active

\* C33: get_fresh_key switches the interceptor on only for the time of the
\* call.  From a new service, when the calls made are get_fresh_key calls
\* only, forced or not, from one thread or two at once, the flag is off
\* when all have returned; and when the calls are a get_fresh_key and an
\* activate_eve (a deactivate_eve), the flag is on (off) when both have
\* returned, also when the one was made during the other.
C33_ForcedAttackIsTemporary ==
    /\ C33_OffAfterFreshKeys
    /\ C33_ActivateStands
    /\ (OneCallEach /\ CallsMade = {"get_fresh_key", "deactivate_eve"}) =>
           ~eve_active

(* Both ends of a pair (C34), under FreshKeySpec *)
BothReturned ==
    \A t \in Threads : pc[t] = "idle" /\ frame[t].op = "get_fresh_key"

\* C34: when device A asks get_fresh_key with peer B and device B asks
\* get_fresh_key with peer A, no attack forced, and both calls return a
\* key, the two keys are the same, in whatever order the two calls take
\* their steps.
C34_BothEndsGetTheSameKey ==
    (BothReturned /\ \A t \in Threads : done[t].kind = "ok") =>
        done[1].key = done[2].key

(* The chat relay (C35, C36), under ChatSpec *)
\* C35: on every connection the chat messages for one recipient appear in
\* the order the relay accepted them (the order of their ids): a message
\* that was queued while the recipient was offline is never sent after a
\* message accepted later, however the register of the recipient and the
\* route_message calls of other connections interleave.
C35_SentInAcceptedOrder ==
    \A c \in Conns : \A p, q \in 1..Len(wire[c]) :
        (p < q /\ wire[c][p].recipient = wire[c][q].recipient) =>
            wire[c][p].id < wire[c][q].id

\* C36: the connection that registered a device last, while it is open
\* and its handler still holds that device_id, is the connection the
\* clients map gives for the device: the exit of the handler of an older
\* connection of the same device does not remove or replace it.
C36_OpenRegistrationStays ==
    \A d \in ChatDevices :
        (/\ latest[d] # 0
         /\ conns[latest[d]].status = "open"
         /\ conns[latest[d]].device_id = d)
            => (d \in DOMAIN clients /\ clients[d] = latest[d])

(* The gateway (C37, C38), under GatewaySpec *)
Range(s) == {s[i] : i \in 1..Len(s)}

\* C37: a packet that route_message handed to the deliver_callback is
\* not also queued: it is in no queue, and get_pending_messages does not
\* return it.
C37_DeliveredOrQueued ==
    \A i \in 1..Len(delivered) :
        /\ delivered[i] \notin Range(Queued(delivered[i].recipient))
        /\ gw_ret.op = "get_pending_messages" =>
               delivered[i] \notin Range(gw_ret.messages)

\* the packets of a sequence that were routed while their recipient was
\* not registered
RoutedOffline(s, log) ==
    LET Offline(packet) == log[packet.n].status = "QUEUED"
    IN SelectSeq(s, Offline)

IsPrefix(s, t) == Len(s) <= Len(t) /\ SubSeq(t, 1, Len(s)) = s

\* C38: the packets routed to a recipient that was not registered stay in
\* its queue, in routing order, through every call but the recipient's
\* get_pending_messages (a register_device or unregister_device of the
\* recipient included), and that call returns each of them once, in that
\* order.
C38_QueuedUntilRetrieved ==
    [][ \A d \in GatewayDevices :
          IF gw_ret'.op = "get_pending_messages" /\ gw_ret'.device_id = d
          THEN RoutedOffline(gw_ret'.messages, routing_log) =
                   RoutedOffline(Queued(d), routing_log)
          ELSE IsPrefix(RoutedOffline(Queued(d), routing_log),
                        RoutedOffline(IF d \in DOMAIN message_queue'
                                      THEN message_queue'[d] ELSE <<>>,
                                      routing_log')) ]_vars

(* The device (C39), under DeviceSpec *)
KeyIffLastRequestSucceeded ==
    HasKey(current_key) <=> last_request = "ok"

SendWithoutKey ==
    (dev_ret'.op = "send_encrypted_message" /\ ~HasKey(current_key)) =>
        /\ dev_ret'.packet = NoPacket
        /\ messages_sent' = messages_sent

====
